---- MODULE Spec2Model ----
(***************************************************************************)
(* State machine of the news dashboard client (frontend/news-app):         *)
(* App.tsx's article store, filter effect, pagination, favorite toggle and *)
(* batched load, as event handlers running on the single UI event queue.   *)
(* Strings that the code inspects character by character (title, summary,  *)
(* keywords, search term) are sequences of one-character strings; strings  *)
(* it only compares for equality (source, category) are plain strings.     *)
(* A date string is a sequence of numbers: <<d>> is the date-only form     *)
(* "YYYY-MM-DD" of day d, <<d, h>> is "YYYY-MM-DDTHH:00:00Z", <<>> is the  *)
(* empty string and any other length is text Date cannot parse.            *)
(* An optional field is <<>> when absent and <<v>> when present.           *)
(***************************************************************************)
EXTENDS Integers, Sequences, FiniteSets, TLC

\* ------------------------------------------------------------- bounds
\* reloads (collect runs) started in one behaviour
MaxReloads == 1
\* favorite clicks in one behaviour
MaxToggles == 2
\* filter-form change events in one behaviour
MaxFilterChanges == 2
\* largest filtered collection of the pagination specification
MaxN == 45
\* largest page number asked of the pagination specification
MaxPage == 6

\* ------------------------------------------------- program constants
itemsPerPage == 10
\* the day `new Date()` falls on when the component is constructed
Today == 40
\* d.setDate(d.getDate() - 30)
DefaultWindow == 30

\* --------------------------------------------------- string helpers
\* String.prototype.toLowerCase on one UTF-16 unit of the model's alphabet
LowerChar(c) ==
  CASE c = "E" -> "e"
    [] c = "K" -> "k"
    [] OTHER -> c

toLowerCase(s) == [i \in 1..Len(s) |-> LowerChar(s[i])]

\* String.prototype.includes: t occurs in s at some offset
includes(s, t) ==
  \E i \in 0..(Len(s) - Len(t)) : SubSeq(s, i + 1, i + Len(t)) = t

\* ----------------------------------------------------- date helpers
\* the time value of an invalid Date
NaN == -1

\* new Date(s).valueOf(), in hours
DateValue(s) ==
  IF Len(s) = 1 THEN s[1] * 24
  ELSE IF Len(s) = 2 THEN s[1] * 24 + s[2]
  ELSE NaN

\* a comparison that takes the time value of an invalid Date for a number
DateLeLax(a, b) == a <= b

\* a >= b on two Dates: false as soon as one of them is invalid
DateGe(a, b) == a # NaN /\ b # NaN /\ a >= b
DateLe(a, b) == a # NaN /\ b # NaN /\ a <= b

\* ------------------------------------------------------- articles
Art(id, title, published, source, summary, keywords, cat, fav) ==
  [id |-> id, title |-> title, link |-> id, published |-> published,
   source |-> source, summary |-> summary, keywords |-> keywords,
   main_category |-> cat, sub_category |-> cat, is_favorite |-> fav]

\* what GET /api/articles may answer: a three-article collection, and one
\* that is longer than a page
FixtureSmall ==
  << Art(1, <<"a">>, <<5>>, "S1", <<>>, <<>>, << "C1" >>, FALSE),
     Art(2, <<"E", "c">>, <<20, 10>>, "S2", << <<"x">> >>,
         << << <<"k">> >> >>, << "C2" >>, TRUE),
     Art(3, <<"b">>, <<40, 10>>, "S1", << <<"y", "E">> >>,
         << << <<"a">>, <<"K", "b">> >> >>, <<>>, FALSE) >>

FixtureLarge ==
  [i \in 1..(itemsPerPage + 1) |->
     Art(i, IF i % 2 = 0 THEN <<"E">> ELSE <<"b">>, <<20, i>>,
         IF i % 2 = 0 THEN "S2" ELSE "S1", <<>>, <<>>,
         IF i = 1 THEN << "C1" >> ELSE <<>>, FALSE)]

Fixtures == {FixtureSmall, FixtureLarge}

\* the category the service gives an article it could not classify; the
\* name stands for the two Hangul syllables U+AE30 U+D0C0
Sentinel == "gita"

\* a collection whose published values are an empty string, text that Date
\* cannot parse, a date-only string and full timestamps, and whose sources
\* and categories come unsorted and repeated, with an empty category, the
\* sentinel and an article without category
FixtureMixed ==
  << Art(1, <<"a">>, <<>>, "S2", <<>>, <<>>, << Sentinel >>, FALSE),
     Art(2, <<"E">>, <<20, 10>>, "S1", <<>>, <<>>, << "C2" >>, FALSE),
     Art(3, <<"b">>, <<1, 2, 3>>, "S2", << <<"k">> >>, <<>>, << "" >>, TRUE),
     Art(4, <<"b">>, <<20>>, "S1", <<>>, <<>>, << "C1" >>, FALSE),
     Art(5, <<"E", "k">>, <<25, 0>>, "S3", <<>>, <<>>, << "C2" >>, TRUE),
     Art(6, <<"a">>, <<30, 0>>, "S1", <<>>, <<>>, <<>>, FALSE) >>

MixedFixtures == {FixtureSmall, FixtureMixed}

\* ------------------------------------------------------- criteria
\* what the search box may be set to
SearchTerms == {<<>>, <<"E">>, <<"k">>}
\* what the two date inputs may be set to: cleared, or a day inside the window
DateInputs == {<<>>, <<20>>}

DefaultFilters ==
  [searchTerm |-> <<>>, selectedSource |-> "all", selectedCategory |-> "all",
   favoritesOnly |-> FALSE, dateFrom |-> <<Today - DefaultWindow>>,
   dateTo |-> <<Today>>]

\* the six predicates of the filter effect, one per .filter call
favPass(a, f) == IF f.favoritesOnly THEN a.is_favorite ELSE TRUE
sourcePass(a, f) ==
  IF f.selectedSource = "all" THEN TRUE ELSE a.source = f.selectedSource
categoryPass(a, f) ==
  IF f.selectedCategory = "all" THEN TRUE
  ELSE a.main_category = << f.selectedCategory >>
dateFromPass(a, f) ==
  IF f.dateFrom # <<>>
  THEN DateGe(DateValue(a.published), DateValue(f.dateFrom)) ELSE TRUE
dateToPass(a, f) ==
  IF f.dateTo # <<>>
  THEN DateLe(DateValue(a.published), DateValue(f.dateTo)) ELSE TRUE
searchPass(a, f) ==
  IF f.searchTerm = <<>> THEN TRUE
  ELSE LET lower == toLowerCase(f.searchTerm)
       IN  \/ includes(toLowerCase(a.title), lower)
           \/ (a.summary # <<>> /\ includes(toLowerCase(a.summary[1]), lower))

\* the chain with the category pass left out
FilterChainNoCategory(arts, f) ==
  LET s1 == SelectSeq(arts, LAMBDA a : favPass(a, f))
      s2 == SelectSeq(s1, LAMBDA a : sourcePass(a, f))
      s4 == SelectSeq(s2, LAMBDA a : dateFromPass(a, f))
      s5 == SelectSeq(s4, LAMBDA a : dateToPass(a, f))
  IN  SelectSeq(s5, LAMBDA a : searchPass(a, f))

\* tempArticles of the filter effect: six chained passes
FilterChain(arts, f) ==
  LET s1 == SelectSeq(arts, LAMBDA a : favPass(a, f))
      s2 == SelectSeq(s1, LAMBDA a : sourcePass(a, f))
      s3 == SelectSeq(s2, LAMBDA a : categoryPass(a, f))
      s4 == SelectSeq(s3, LAMBDA a : dateFromPass(a, f))
      s5 == SelectSeq(s4, LAMBDA a : dateToPass(a, f))
  IN  SelectSeq(s5, LAMBDA a : searchPass(a, f))

\* ------------------------------------------------------ pagination
\* Array.prototype.slice(start, end) on 0-based indices
slice(s, start, end) ==
  LET n == Len(s)
      from == IF start < 0 THEN (IF n + start < 0 THEN 0 ELSE n + start)
              ELSE (IF start > n THEN n ELSE start)
      to == IF end < 0 THEN (IF n + end < 0 THEN 0 ELSE n + end)
            ELSE (IF end > n THEN n ELSE end)
  IN  IF to <= from THEN <<>> ELSE SubSeq(s, from + 1, to)

\* Math.ceil(n / itemsPerPage)
totalPages(n) ==
  IF n % itemsPerPage = 0 THEN n \div itemsPerPage
  ELSE (n \div itemsPerPage) + 1

\* a page that stops one item early
PageSliceShort(fa, page) ==
  slice(fa, (page - 1) * itemsPerPage, page * itemsPerPage - 1)

\* paginatedArticles for currentPage = page
PageSlice(fa, page) ==
  slice(fa, (page - 1) * itemsPerPage, page * itemsPerPage)

\* ---------------------------------------------------------- state
VARIABLES
  articles, filteredArticles, stats, keywordStats, categoryStats,
  networkData, collections, loading, collecting, filters, currentPage,
  batches,        \* loadAllData calls awaiting their Promise.all
  collectPc,      \* where handleCollectNews is suspended
  toggles,        \* handleToggleFavorite calls awaiting the remote call
  nLoads, nToggles, nFilterChanges,
  resolved,       \* the batches that resolved, in that order
  okLog,          \* the favorite toggles that completed, in that order
  prevPage,       \* the page shown when the filter effect last ran
  unsettled,      \* fetches still in flight when a batch last rejected
  tabValue,
  container,      \* what the div of containerRef holds; <<>> without a div
  wasDrawn        \* the div held a drawing when KeywordNetwork last rendered

store == <<articles, keywordStats, categoryStats, networkData, stats,
           collections>>
view == <<filteredArticles, currentPage, prevPage>>
counters == <<nLoads, nToggles, nFilterChanges>>
net == <<tabValue, container, wasDrawn>>

vars == <<articles, filteredArticles, stats, keywordStats, categoryStats,
          networkData, collections, loading, collecting, filters,
          currentPage, batches, collectPc, toggles, nLoads, nToggles,
          nFilterChanges, resolved, okLog, prevPage, unsettled, tabValue,
          container, wasDrawn>>

FetchNames == {"articles", "keywordStats", "categoryStats", "network",
               "stats", "collections"}

Init ==
  /\ articles = <<>>
  /\ filteredArticles = <<>>
  /\ stats = 0
  /\ keywordStats = 0
  /\ categoryStats = 0
  /\ networkData = 0
  /\ collections = 0
  /\ loading = TRUE
  /\ collecting = FALSE
  /\ filters = DefaultFilters
  /\ currentPage = 1
  /\ batches = {}
  /\ collectPc = "idle"
  /\ toggles = {}
  /\ nLoads = 0
  /\ nToggles = 0
  /\ nFilterChanges = 0
  /\ resolved = <<>>
  /\ okLog = <<>>
  /\ prevPage = 1
  /\ unsettled = 0
  /\ tabValue = 0
  /\ container = <<>>
  /\ wasDrawn = FALSE

\* ------------------------------------------------- keyword network
GraphNode(id, value) == [id |-> id, label |-> id, value |-> value]
GraphEdge(source, target) == [source |-> source, target |-> target, value |-> 1]

\* what GET /api/keywords/network may answer: no nodes and no edges; nodes
\* without edges; edges without nodes; three nodes with four edges, two of
\* which name a node that is not in the payload; two nodes sharing their id
\* and a third, with a loop and an edge
GraphPayloads ==
  << [nodes |-> <<>>, edges |-> <<>>],
     [nodes |-> << GraphNode("a", 4), GraphNode("b", 1) >>, edges |-> <<>>],
     [nodes |-> <<>>, edges |-> << GraphEdge("a", "b") >>],
     [nodes |-> << GraphNode("a", 4), GraphNode("b", 1), GraphNode("c", 9) >>,
      edges |-> << GraphEdge("a", "b"), GraphEdge("b", "z"),
                   GraphEdge("c", "a"), GraphEdge("y", "c") >>],
     [nodes |-> << GraphNode("a", 4), GraphNode("a", 1), GraphNode("b", 1) >>,
      edges |-> << GraphEdge("a", "a"), GraphEdge("b", "a") >>] >>

\* networkData names its payload by number, as the other statistics do: 0 is
\* the undefined of useState<NetworkData>(), d > 0 the d-th answer above
GraphOf(d) == IF d = 0 THEN <<>> ELSE << GraphPayloads[d] >>

\* the tabs of the main panel; KeywordNetwork is in the panel of tab 1
TabValues == 0..4

\* Math.random() * width, Math.random() * height
Coordinates == {0, 1}
Layouts(n) == [1..n -> Coordinates \X Coordinates]

\* !data || !data.nodes.length || !data.edges.length
Insufficient(data) ==
  data = <<>> \/ Len(data[1].nodes) = 0 \/ Len(data[1].edges) = 0

\* data.nodes.map(node => ({...node, x: random, y: random}))
PlaceNodes(data, layout) ==
  [i \in DOMAIN data.nodes |->
     [id |-> data.nodes[i].id, label |-> data.nodes[i].label,
      value |-> data.nodes[i].value, x |-> layout[i][1], y |-> layout[i][2]]]

\* articles.find(a => a.id === articleId) and nodes.find(n => n.id === ...):
\* the first element with that id, <<>> when there is none
find(arts, articleId) ==
  LET hits == {i \in DOMAIN arts : arts[i].id = articleId}
  IN  IF hits = {} THEN <<>>
      ELSE << arts[CHOOSE i \in hits : \A j \in hits : i <= j] >>

\* a drawing that gives up at the first edge it cannot resolve
drawNetworkUntilMissing(data, nodes) ==
  LET bad == {k \in DOMAIN data.edges :
                \/ find(nodes, data.edges[k].source) = <<>>
                \/ find(nodes, data.edges[k].target) = <<>>}
      stop == IF bad = {} THEN Len(data.edges)
              ELSE (CHOOSE k \in bad : \A j \in bad : k <= j) - 1
      drawn == SubSeq(data.edges, 1, stop)
  IN  [lines |->
         [k \in DOMAIN drawn |->
            LET sourceNode == find(nodes, drawn[k].source)[1]
                targetNode == find(nodes, drawn[k].target)[1]
            IN  [moveTo |-> <<sourceNode.x, sourceNode.y>>,
                 lineTo |-> <<targetNode.x, targetNode.y>>]],
       circles |->
         [i \in DOMAIN nodes |->
            [arc |-> <<nodes[i].x, nodes[i].y>>, value |-> nodes[i].value,
             fillText |-> nodes[i].label]]]

\* drawNetwork: what the canvas shows after clearRect, the edge loop and the
\* node loop (the radius of a circle is a function of its value)
drawNetwork(data, nodes) ==
  LET drawn == SelectSeq(data.edges,
                 LAMBDA edge : /\ find(nodes, edge.source) # <<>>
                               /\ find(nodes, edge.target) # <<>>)
  IN  [lines |->
         [k \in DOMAIN drawn |->
            LET sourceNode == find(nodes, drawn[k].source)[1]
                targetNode == find(nodes, drawn[k].target)[1]
            IN  [moveTo |-> <<sourceNode.x, sourceNode.y>>,
                 lineTo |-> <<targetNode.x, targetNode.y>>]],
       circles |->
         [i \in DOMAIN nodes |->
            [arc |-> <<nodes[i].x, nodes[i].y>>, value |-> nodes[i].value,
             fillText |-> nodes[i].label]]]

\* the component is in the tree: the panels are rendered once loading is
\* over, and a panel renders its children when its tab is selected
Mounted(l, tab) == ~l /\ tab = 1

\* what KeywordNetwork returns
KeywordNetworkView(l, tab, d) ==
  IF ~Mounted(l, tab) THEN "none"
  ELSE IF Insufficient(GraphOf(d)) THEN "placeholder"
  ELSE "network"

\* an effect that leaves the surface alone when the data is insufficient
KeywordNetworkEffectKeep(l, tab, d, fresh) ==
  /\ wasDrawn' = (container # <<>>)
  /\ IF ~Mounted(l, tab) THEN container' = <<>>
     ELSE IF Insufficient(GraphOf(d)) THEN container' = container
     ELSE \E layout \in Layouts(Len(GraphOf(d)[1].nodes)) :
            container' = << drawNetwork(GraphOf(d)[1],
                                        PlaceNodes(GraphOf(d)[1], layout)) >>

\* KeywordNetwork after a render of App that leaves loading = l, tabValue =
\* tab and networkData = d, fresh when d is a new object. Out of the tree,
\* or returning the placeholder, there is no div and its canvas is gone;
\* the effect runs when the div is new or the data is, and puts a canvas
\* with a new random layout in the div (a new canvas always has a 2d
\* context).
KeywordNetworkEffect(l, tab, d, fresh) ==
  IF ~Mounted(l, tab) \/ Insufficient(GraphOf(d))
  THEN /\ container' = <<>>
       /\ wasDrawn' = (container # <<>>)
  ELSE IF fresh \/ container = <<>>
  THEN /\ \E layout \in Layouts(Len(GraphOf(d)[1].nodes)) :
            container' = << drawNetwork(GraphOf(d)[1],
                                        PlaceNodes(GraphOf(d)[1], layout)) >>
       /\ wasDrawn' = (container # <<>>)
  ELSE UNCHANGED <<container, wasDrawn>>

\* the effect without its setCurrentPage(1)
RunFilterEffectKeepPage(arts, f) ==
  /\ filteredArticles' = FilterChain(arts, f)
  /\ currentPage' = currentPage
  /\ prevPage' = currentPage

\* the effect on [articles, filters]: recompute the view, back to page 1
RunFilterEffect(arts, f) ==
  /\ filteredArticles' = FilterChain(arts, f)
  /\ currentPage' = 1
  /\ prevPage' = currentPage

\* a load that shows the spinner whatever its argument
IssueBatchSpinning(showLoading) ==
  /\ nLoads' = nLoads + 1
  /\ batches' = batches \cup
       {[id |-> nLoads + 1, showLoading |-> showLoading, res |-> << >>]}
  /\ loading' = TRUE

\* loadAllData up to its await: a batch of six fetches is in flight
IssueBatch(showLoading) ==
  /\ nLoads' = nLoads + 1
  /\ batches' = batches \cup
       {[id |-> nLoads + 1, showLoading |-> showLoading, res |-> << >>]}
  /\ loading' = IF showLoading THEN TRUE ELSE loading

\* useEffect(() => { loadAllData(); }, [])
Mount ==
  /\ nLoads = 0
  /\ IssueBatch(TRUE)
  /\ UNCHANGED <<store, view, collecting, filters, collectPc, toggles,
                 nToggles, nFilterChanges, resolved, okLog, unsettled, net>>

\* what the remote service may answer to fetch k of batch b: any article
\* collection; for the five other fetches a payload of its own per request
Responses(b, k) == IF k = "articles" THEN Fixtures ELSE {b.id}

\* handleCollectNews after `await loadAllData(false)`: finally
CollectDone(b) ==
  IF b.showLoading
  THEN UNCHANGED <<collecting, collectPc>>
  ELSE collecting' = FALSE /\ collectPc' = "idle"

\* a resolution that is dropped when a batch issued later has resolved
BatchResolveFenced(b, res) ==
  /\ IF \E i \in DOMAIN resolved : resolved[i].id > b.id
     THEN UNCHANGED <<store, view>>
     ELSE /\ articles' = res["articles"]
          /\ keywordStats' = res["keywordStats"]
          /\ categoryStats' = res["categoryStats"]
          /\ networkData' = res["network"]
          /\ stats' = res["stats"]
          /\ collections' = res["collections"]
          /\ RunFilterEffect(res["articles"], filters)
  /\ loading' = IF b.showLoading THEN FALSE ELSE loading
  /\ KeywordNetworkEffect(loading', tabValue, networkData', TRUE)
  /\ batches' = batches \ {b}
  /\ resolved' = Append(resolved,
                        [id |-> b.id, articlesData |-> res["articles"]])
  /\ CollectDone(b)

\* loadAllData after the await, all six fulfilled: the six setters, finally
BatchResolve(b, res) ==
  /\ articles' = res["articles"]
  /\ keywordStats' = res["keywordStats"]
  /\ categoryStats' = res["categoryStats"]
  /\ networkData' = res["network"]
  /\ stats' = res["stats"]
  /\ collections' = res["collections"]
  /\ RunFilterEffect(res["articles"], filters)
  /\ loading' = IF b.showLoading THEN FALSE ELSE loading
  /\ KeywordNetworkEffect(loading', tabValue, networkData', TRUE)
  /\ batches' = batches \ {b}
  /\ resolved' = Append(resolved,
                        [id |-> b.id, articlesData |-> res["articles"]])
  /\ CollectDone(b)

\* one fetch of batch b is fulfilled with v; Promise.all resolves with the last
FetchFulfil(b, k, v) ==
  /\ b \in batches
  /\ k \in FetchNames \ DOMAIN b.res
  /\ LET res == (k :> v) @@ b.res
     IN  IF DOMAIN res = FetchNames
         THEN BatchResolve(b, res)
         ELSE /\ batches' = (batches \ {b}) \cup {[b EXCEPT !.res = res]}
              /\ UNCHANGED <<store, view, loading, collecting, collectPc,
                             resolved, container, wasDrawn>>
  /\ UNCHANGED <<filters, toggles, counters, okLog, unsettled, tabValue>>

\* a rejection whose catch empties the list
FetchRejectClearing(b, k) ==
  /\ b \in batches
  /\ k \in FetchNames \ DOMAIN b.res
  /\ articles' = <<>>
  /\ RunFilterEffect(<<>>, filters)
  /\ loading' = IF b.showLoading THEN FALSE ELSE loading
  /\ batches' = batches \ {b}
  /\ CollectDone(b)
  /\ unsettled' = Cardinality(FetchNames \ DOMAIN b.res) - 1
  /\ KeywordNetworkEffect(loading', tabValue, networkData, FALSE)
  /\ UNCHANGED <<stats, keywordStats, categoryStats, networkData,
                 collections, filters, toggles, counters, resolved, okLog,
                 tabValue>>

\* one fetch of batch b is rejected: Promise.all rejects at once; catch, finally
FetchReject(b, k) ==
  /\ b \in batches
  /\ k \in FetchNames \ DOMAIN b.res
  /\ loading' = IF b.showLoading THEN FALSE ELSE loading
  /\ batches' = batches \ {b}
  /\ CollectDone(b)
  /\ unsettled' = Cardinality(FetchNames \ DOMAIN b.res) - 1
  /\ KeywordNetworkEffect(loading', tabValue, networkData, FALSE)
  /\ UNCHANGED <<store, view, filters, toggles, counters, resolved, okLog,
                 tabValue>>

\* handleCollectNews up to `await newsApi.collectNewsNow()`
CollectClick ==
  /\ nLoads > 0
  /\ ~collecting
  /\ nLoads < 1 + MaxReloads
  /\ collecting' = TRUE
  /\ collectPc' = "collecting"
  /\ UNCHANGED <<store, view, loading, filters, batches, toggles, counters,
                 resolved, okLog, unsettled, net>>

\* collectNewsNow resolved: alert, then loadAllData(false) up to its await
CollectOk ==
  /\ collectPc = "collecting"
  /\ collectPc' = "reloading"
  /\ IssueBatch(FALSE)
  /\ UNCHANGED <<store, view, collecting, filters, toggles, nToggles,
                 nFilterChanges, resolved, okLog, unsettled, net>>

\* collectNewsNow rejected: alert, finally
CollectFail ==
  /\ collectPc = "collecting"
  /\ collectPc' = "idle"
  /\ collecting' = FALSE
  /\ UNCHANGED <<store, view, loading, filters, batches, toggles, counters,
                 resolved, okLog, unsettled, net>>

\* the articles whose card, with its favorite button, is on screen: the
\* current page of the list tab, or the favorites tab
Shown(a) ==
  \/ \E i \in DOMAIN PageSlice(filteredArticles, currentPage) :
       PageSlice(filteredArticles, currentPage)[i] = a
  \/ (a.is_favorite /\ \E i \in DOMAIN articles : articles[i] = a)

\* articles.map(a => a.id === articleId ? {...a, is_favorite: !a.is_favorite} : a)
FlipFavorite(arts, articleId) ==
  [i \in DOMAIN arts |->
     IF arts[i].id = articleId
     THEN [arts[i] EXCEPT !.is_favorite = ~arts[i].is_favorite]
     ELSE arts[i]]

\* handleToggleFavorite up to its await; the closure keeps this render's articles
ToggleClick(articleId) ==
  /\ ~loading
  /\ nToggles < MaxToggles
  /\ \E i \in DOMAIN articles :
       articles[i].id = articleId /\ Shown(articles[i])
  /\ find(articles, articleId) # <<>>
  /\ nToggles' = nToggles + 1
  /\ toggles' = toggles \cup
       {[ticket |-> nToggles + 1, id |-> articleId, snap |-> articles,
         gen |-> Len(resolved)]}
  /\ UNCHANGED <<store, view, loading, collecting, filters, batches,
                 collectPc, nLoads, nFilterChanges, resolved, okLog,
                 unsettled, net>>

\* addFavorite / removeFavorite resolved: setArticles(articles.map(...))
ToggleOk(t) ==
  /\ t \in toggles
  /\ toggles' = toggles \ {t}
  /\ articles' = FlipFavorite(t.snap, t.id)
  /\ RunFilterEffect(FlipFavorite(t.snap, t.id), filters)
  /\ okLog' = Append(okLog, [ticket |-> t.ticket, id |-> t.id,
                             orig |-> find(t.snap, t.id)[1].is_favorite,
                             gen |-> t.gen])
  /\ UNCHANGED <<stats, keywordStats, categoryStats, networkData,
                 collections, loading, collecting, filters, batches,
                 collectPc, counters, resolved, unsettled, net>>

\* a failed toggle that flips the flag all the same
ToggleFailOptimistic(t) ==
  /\ t \in toggles
  /\ toggles' = toggles \ {t}
  /\ articles' = FlipFavorite(t.snap, t.id)
  /\ RunFilterEffect(FlipFavorite(t.snap, t.id), filters)
  /\ UNCHANGED <<stats, keywordStats, categoryStats, networkData,
                 collections, loading, collecting, filters, batches,
                 collectPc, counters, resolved, okLog, unsettled, net>>

\* addFavorite / removeFavorite rejected: console.error
ToggleFail(t) ==
  /\ t \in toggles
  /\ toggles' = toggles \ {t}
  /\ UNCHANGED <<store, view, loading, collecting, filters, batches,
                 collectPc, counters, resolved, okLog, unsettled, net>>

\* the UTF-16 code units of the strings used as source and category
CodeUnits(s) ==
  CASE s = "" -> <<>>
    [] s = "C1" -> <<67, 49>>
    [] s = "C2" -> <<67, 50>>
    [] s = "S1" -> <<83, 49>>
    [] s = "S2" -> <<83, 50>>
    [] s = "S3" -> <<83, 51>>
    [] s = "all" -> <<97, 108, 108>>
    [] s = Sentinel -> <<44592, 53440>>

\* a < b on two strings: by code units, a proper prefix first
StrLess(a, b) ==
  LET u == CodeUnits(a)
      v == CodeUnits(b)
  IN  \/ Len(u) < Len(v) /\ SubSeq(v, 1, Len(u)) = u
      \/ \E k \in 1..(IF Len(u) < Len(v) THEN Len(u) ELSE Len(v)) :
           /\ SubSeq(u, 1, k - 1) = SubSeq(v, 1, k - 1)
           /\ u[k] < v[k]

\* [...new Set(s)]: the first occurrence of every value, in order
RECURSIVE uniq(_)
uniq(s) ==
  IF s = <<>> THEN <<>>
  ELSE LET r == uniq(SubSeq(s, 1, Len(s) - 1))
       IN  IF \E j \in DOMAIN r : r[j] = s[Len(s)] THEN r
           ELSE Append(r, s[Len(s)])

\* Array.prototype.sort() without comparator: ascending by code units, stable
RECURSIVE sort(_)
sort(s) ==
  IF s = <<>> THEN <<>>
  ELSE LET r == sort(SubSeq(s, 1, Len(s) - 1))
           x == s[Len(s)]
           k == Cardinality({j \in DOMAIN r : ~StrLess(x, r[j])})
       IN  SubSeq(r, 1, k) \o <<x>> \o SubSeq(r, k + 1, Len(r))

\* the source list taken from what is on screen
sourcesOfView ==
  sort(uniq([i \in DOMAIN filteredArticles |-> filteredArticles[i].source]))

\* const sources = [...new Set(articles.map(a => a.source))].sort()
sources == sort(uniq([i \in DOMAIN articles |-> articles[i].source]))

\* const categories = [...new Set(articles.map(a => a.main_category)
\*                                        .filter(Boolean))].sort()
categories ==
  LET mapped == [i \in DOMAIN articles |-> articles[i].main_category]
      kept == SelectSeq(mapped, LAMBDA c : c # <<>> /\ c[1] # "")
  IN  sort(uniq([i \in DOMAIN kept |-> kept[i][1]]))

\* the values the two selects offer besides "all"
sourceSet == {sources[i] : i \in DOMAIN sources}
categorySet == {categories[i] : i \in DOMAIN categories}

\* setFilters(f => ({...f, <field>: value})), then the filter effect
SetFilters(f) ==
  /\ nLoads > 0
  /\ nFilterChanges < MaxFilterChanges
  /\ nFilterChanges' = nFilterChanges + 1
  /\ filters' = f
  /\ RunFilterEffect(articles, f)
  /\ UNCHANGED <<store, loading, collecting, batches, collectPc, toggles,
                 nLoads, nToggles, resolved, okLog, unsettled, net>>

SetSource(v) == SetFilters([filters EXCEPT !.selectedSource = v])
SetCategory(v) == SetFilters([filters EXCEPT !.selectedCategory = v])
SetSearchTerm(v) == SetFilters([filters EXCEPT !.searchTerm = v])
SetDateFrom(v) == SetFilters([filters EXCEPT !.dateFrom = v])
SetDateTo(v) == SetFilters([filters EXCEPT !.dateTo = v])
SetFavoritesOnly(v) == SetFilters([filters EXCEPT !.favoritesOnly = v])

\* Pagination onChange: shown when not loading and there is more than one page
SetPage(page) ==
  /\ ~loading
  /\ totalPages(Len(filteredArticles)) > 1
  /\ page \in 1..totalPages(Len(filteredArticles))
  /\ currentPage' = page
  /\ UNCHANGED <<store, filteredArticles, prevPage, loading, collecting,
                 filters, batches, collectPc, toggles, counters, resolved,
                 okLog, unsettled, net>>

\* the cards whose favorite button is clicked: the first two of the list and
\* the first of the second page
ClickIds == {1, 2, itemsPerPage + 1}

\* the six values Promise.all hands to loadAllData when batch b resolves
Payload(b, v) ==
  [k \in FetchNames |-> IF k = "articles" THEN v ELSE b.id]

\* Promise.all of batch b resolved: loadAllData resumes with the six results
LoadResolve(b, v) ==
  /\ b \in batches
  /\ b.res = << >>
  /\ BatchResolve(b, Payload(b, v))
  /\ UNCHANGED <<filters, toggles, counters, okLog, unsettled, tabValue>>

\* Promise.all of batch b rejected: loadAllData resumes in its catch
LoadReject(b) ==
  /\ b.res = << >>
  /\ \E k \in FetchNames : FetchReject(b, k)

UserNext ==
  \/ CollectClick
  \/ \E id \in ClickIds : ToggleClick(id)
  \/ \E t \in toggles : ToggleOk(t)
  \/ \E t \in toggles : ToggleFail(t)
  \/ \E v \in {"all"} \cup sourceSet : SetSource(v)
  \/ \E v \in {"all"} \cup categorySet : SetCategory(v)
  \/ \E v \in SearchTerms : SetSearchTerm(v)
  \/ \E v \in DateInputs : SetDateFrom(v)
  \/ \E v \in DateInputs : SetDateTo(v)
  \/ \E v \in BOOLEAN : SetFavoritesOnly(v)
  \/ \E p \in 1..MaxPage : SetPage(p)

\* the application at the grain of its handlers: every step runs code of
\* App.tsx, a load resuming once, when its Promise.all settles
Next ==
  \/ Mount
  \/ \E b \in batches : \E v \in Fixtures : LoadResolve(b, v)
  \/ \E b \in batches : LoadReject(b)
  \/ CollectOk
  \/ CollectFail
  \/ UserNext

Spec == Init /\ [][Next]_vars

\* the loads at the grain of the six fetches of a batch
FetchNext ==
  \/ Mount
  \/ \E b \in batches : \E k \in FetchNames :
       \E v \in Responses(b, k) : FetchFulfil(b, k, v)
  \/ \E b \in batches : \E k \in FetchNames : FetchReject(b, k)
  \/ CollectClick
  \/ CollectOk
  \/ CollectFail

FetchSpec == Init /\ [][FetchNext]_vars

\* some fetch of the batch numbered id settles
Settle(id) ==
  \E b \in batches : \E k \in FetchNames :
    /\ b.id = id
    /\ \/ \E v \in Responses(b, k) : FetchFulfil(b, k, v)
       \/ FetchReject(b, k)

\* the mount effect runs, and every request is answered or fails in the end
FairFetchSpec ==
  /\ FetchSpec
  /\ WF_vars(Mount)
  /\ \A id \in 1..(1 + MaxReloads) : WF_vars(Settle(id))

\* n articles, all inside the default date window
PageArticles(n) ==
  [i \in 1..n |-> Art(i, <<"b">>, <<20, 0>>, "S1", <<>>, <<>>, <<>>, FALSE)]

\* the state after the mount load has delivered n articles
PageInit ==
  \E n \in 0..MaxN :
    /\ articles = PageArticles(n)
    /\ filteredArticles = FilterChain(PageArticles(n), DefaultFilters)
    /\ stats = 1
    /\ keywordStats = 1
    /\ categoryStats = 1
    /\ networkData = 1
    /\ collections = 1
    /\ loading = FALSE
    /\ collecting = FALSE
    /\ filters = DefaultFilters
    /\ currentPage = 1
    /\ batches = {}
    /\ collectPc = "idle"
    /\ toggles = {}
    /\ nLoads = 1
    /\ nToggles = 0
    /\ nFilterChanges = 0
    /\ resolved = << [id |-> 1, articlesData |-> PageArticles(n)] >>
    /\ okLog = <<>>
    /\ prevPage = 1
    /\ unsettled = 0
    /\ tabValue = 0
    /\ container = <<>>
    /\ wasDrawn = FALSE

PageNext == \E p \in 1..MaxPage : SetPage(p)

\* page navigation over loaded collections of every size up to MaxN
PageSpec == PageInit /\ [][PageNext]_vars

\* Tabs onChange: setTabValue(v)
SetTab(v) ==
  /\ tabValue' = v
  /\ KeywordNetworkEffect(loading, v, networkData, FALSE)
  /\ UNCHANGED <<store, view, loading, collecting, filters, batches,
                 collectPc, toggles, counters, resolved, okLog, unsettled>>

\* Promise.all of batch b resolved, the network fetch with the d-th payload
NetworkLoadResolve(b, d) ==
  /\ b \in batches
  /\ b.res = << >>
  /\ BatchResolve(b, [Payload(b, FixtureSmall) EXCEPT !["network"] = d])
  /\ UNCHANGED <<filters, toggles, counters, okLog, unsettled, tabValue>>

\* the analysis tab: loads and reloads that deliver a graph, and the tabs
NetworkNext ==
  \/ Mount
  \/ \E b \in batches : \E d \in DOMAIN GraphPayloads : NetworkLoadResolve(b, d)
  \/ \E b \in batches : LoadReject(b)
  \/ CollectClick
  \/ CollectOk
  \/ CollectFail
  \/ \E v \in TabValues : SetTab(v)

NetworkSpec == Init /\ [][NetworkNext]_vars

\* the filter form over a loaded collection: the mount load and every
\* change event of the six inputs
FilterNext ==
  \/ Mount
  \/ \E b \in batches : \E v \in MixedFixtures : LoadResolve(b, v)
  \/ \E v \in {"all"} \cup sourceSet : SetSource(v)
  \/ \E v \in {"all"} \cup categorySet : SetCategory(v)
  \/ \E v \in SearchTerms : SetSearchTerm(v)
  \/ \E v \in DateInputs : SetDateFrom(v)
  \/ \E v \in DateInputs : SetDateTo(v)
  \/ \E v \in BOOLEAN : SetFavoritesOnly(v)

FilterSpec == Init /\ [][FilterNext]_vars

\* ------------------------------------------------------------ claims
Last(s) == s[Len(s)]
FavoriteOf(arts, articleId) == find(arts, articleId)[1].is_favorite

\* the step in which the remote call of toggle t resolves / rejects
ToggleOkStep(t) ==
  t \in toggles /\ t \notin toggles' /\ Len(okLog') = Len(okLog) + 1
ToggleFailStep(t) ==
  t \in toggles /\ t \notin toggles' /\ okLog' = okLog

\* some toggle has failed
SomeToggleFailed == nToggles > Len(okLog) + Cardinality(toggles)

AllPass(a, f) ==
  /\ favPass(a, f)
  /\ sourcePass(a, f)
  /\ categoryPass(a, f)
  /\ dateFromPass(a, f)
  /\ dateToPass(a, f)
  /\ searchPass(a, f)

Pass(k, a, f) ==
  CASE k = 1 -> favPass(a, f)
    [] k = 2 -> sourcePass(a, f)
    [] k = 3 -> categoryPass(a, f)
    [] k = 4 -> dateFromPass(a, f)
    [] k = 5 -> dateToPass(a, f)
    [] OTHER -> searchPass(a, f)

RECURSIVE ChainIn(_, _, _)
ChainIn(order, arts, f) ==
  IF order = <<>> THEN arts
  ELSE ChainIn(Tail(order),
               SelectSeq(arts, LAMBDA a : Pass(Head(order), a, f)), f)

\* the code's order reversed, and its rotations
Orders ==
  {[i \in 1..6 |-> 7 - i]} \cup
  {[i \in 1..6 |-> ((i + r - 1) % 6) + 1] : r \in 1..5}

\* C1: in every state (the filter effect has run by the end of every event)
\* the filtered collection is the subsequence of the raw collection, in its
\* order, of the articles that satisfy all six predicates under the current
\* criteria, and chaining the six passes in another order gives the same.
C1_FilteredIsMatchingSubsequence ==
  /\ filteredArticles = SelectSeq(articles, LAMBDA a : AllPass(a, filters))
  /\ \A order \in Orders : ChainIn(order, articles, filters) = filteredArticles

\* a load, a completed toggle and a filter change have happened, and the
\* view keeps some articles and drops others
C1_Witness ==
  /\ okLog # <<>>
  /\ resolved # <<>>
  /\ nFilterChanges > 0
  /\ filters.selectedCategory # "all"
  /\ 0 < Len(filteredArticles)
  /\ Len(filteredArticles) < Len(articles)

\* b is a with exactly the is_favorite flag of article articleId inverted
SameButFlag(a, b, articleId) ==
  /\ Len(a) = Len(b)
  /\ \E i \in DOMAIN a : a[i].id = articleId
  /\ \A i \in DOMAIN a :
       IF a[i].id = articleId
       THEN b[i] = [a[i] EXCEPT !.is_favorite = ~a[i].is_favorite]
       ELSE b[i] = a[i]

\* C2: the write of a successful favorite toggle changes, in the raw
\* collection as it is just before the write, the is_favorite flag of the
\* toggled article and nothing else.
C2_ToggleWritesOnlyTheFlag ==
  [][\A t \in toggles :
       ToggleOkStep(t) => SameButFlag(articles, articles', t.id)]_vars

\* C3: once two toggles of the same article, both started since the last
\* load, have completed, the article's is_favorite is what it was when the
\* first of the two was started.
C3_TwoTogglesRestore ==
  \A i, j \in DOMAIN okLog :
    (/\ Len(okLog) = 2
     /\ okLog[i].ticket < okLog[j].ticket
     /\ okLog[i].id = okLog[j].id
     /\ okLog[i].gen = Len(resolved)
     /\ okLog[j].gen = Len(resolved))
      => FavoriteOf(articles, okLog[i].id) = okLog[i].orig

\* C4 as stated: after a failed toggle the article's flag is the inverse of
\* what it was when the toggle was started.
C4_FailedToggleStaysFlipped ==
  [][\A t \in toggles :
       ToggleFailStep(t)
         => \A i \in DOMAIN articles' :
              articles'[i].id = t.id
                => articles'[i].is_favorite = ~FavoriteOf(t.snap, t.id)]_vars

\* C4 amended: a failed toggle is reported and changes nothing locally: the
\* raw collection, the filtered view and the current page stay as they were
\* (the flag is written only after the remote call has succeeded).
C4_FailedToggleChangesNothing ==
  [][\A t \in toggles :
       ToggleFailStep(t)
         => /\ articles' = articles
            /\ filteredArticles' = filteredArticles
            /\ currentPage' = currentPage]_vars

\* a toggle has failed, none has succeeded, and the raw collection is still,
\* flag for flag, the collection the load delivered
C4_Witness ==
  /\ SomeToggleFailed
  /\ toggles = {}
  /\ okLog = <<>>
  /\ resolved # <<>>
  /\ articles = Last(resolved).articlesData
\* the steps of batch b: its Promise.all rejects, resolves, or one more of
\* its fetches is fulfilled
BatchGone(b) == b \in batches /\ \A c \in batches' : c.id # b.id
RejectStep(b) == BatchGone(b) /\ resolved' = resolved
ResolveStep(b) == BatchGone(b) /\ Len(resolved') = Len(resolved) + 1
PartialStep(b) == b \in batches /\ \E c \in batches' : c.id = b.id /\ c # b

StoredNext(k) ==
  CASE k = "articles" -> articles'
    [] k = "keywordStats" -> keywordStats'
    [] k = "categoryStats" -> categoryStats'
    [] k = "network" -> networkData'
    [] k = "stats" -> stats'
    [] OTHER -> collections'

\* C5: a batched load is all or nothing. The step in which one of the six
\* fetches fails leaves the six stored values and the view as they were, a
\* fetch that is fulfilled before the others stores nothing, and the step in
\* which the sixth is fulfilled sets each stored value to that batch's answer.
C5_BatchAllOrNothing ==
  [][\A b \in batches :
       /\ RejectStep(b) => store' = store /\ view' = view
       /\ PartialStep(b) => store' = store /\ view' = view
       /\ ResolveStep(b) =>
            \A k \in FetchNames :
              IF k \in DOMAIN b.res THEN StoredNext(k) = b.res[k]
              ELSE StoredNext(k) \in Responses(b, k)]_vars

\* the reload failed after some of its fetches had been fulfilled, and the
\* store still shows what the mount load delivered
C5_Witness ==
  /\ nLoads = 2
  /\ batches = {}
  /\ Len(resolved) = 1
  /\ resolved[1].id = 1
  /\ unsettled < 5
  /\ articles # <<>>
  /\ articles = resolved[1].articlesData
  /\ keywordStats = 1
  /\ collections = 1

\* C6: no fencing, the last write wins. The five statistics hold the answers
\* to the batch that resolved last, whichever was issued last, and so does
\* the raw collection as long as no favorite toggle has written to it.
C6_LastResolvedBatchWins ==
  resolved # <<>> =>
    /\ keywordStats = Last(resolved).id
    /\ categoryStats = Last(resolved).id
    /\ networkData = Last(resolved).id
    /\ stats = Last(resolved).id
    /\ collections = Last(resolved).id
    /\ okLog = <<>> => articles = Last(resolved).articlesData

\* the mount load resolved after the reload and the store holds its answers
C6_Witness ==
  /\ Len(resolved) = 2
  /\ resolved[1].id = 2
  /\ resolved[2].id = 1
  /\ resolved[1].articlesData # resolved[2].articlesData
  /\ okLog = <<>>
  /\ keywordStats = 1
  /\ articles = resolved[2].articlesData

\* C7 as stated: the loading flag is set as long as a batch is in flight.
C7_LoadingWhileFetching == batches # {} => loading

\* C7 amended: the loading flag guards the mount load only. From the mount
\* on it is set exactly while the Promise.all of that batch is pending: it
\* is cleared when all six fetches are fulfilled or as soon as the first
\* one is rejected, other fetches of the batch still in flight or not; the
\* reload after a collect run neither sets nor clears it. Every request
\* settling in the end, the flag is cleared for good.
C7_LoadingTracksMountLoad ==
  /\ [](nLoads > 0 => (loading <=> \E b \in batches : b.showLoading))
  /\ <>[](~loading)

\* the mount load was rejected while fetches of its batch were in flight,
\* and the flag is cleared
C7_Witness ==
  /\ nLoads = 1
  /\ batches = {}
  /\ resolved = <<>>
  /\ unsettled > 0
  /\ ~loading

\* C8: every step that recomputes the filtered view (a filter change, a
\* load resolving, a toggle completing) leaves the current page at 1, and a
\* filter change that sets the criteria to what they were leaves the
\* filtered collection as it was.
C8_RecomputeResetsPage ==
  [][(\/ nFilterChanges' # nFilterChanges
      \/ Len(resolved') # Len(resolved)
      \/ Len(okLog') # Len(okLog))
       => /\ currentPage' = 1
          /\ (nFilterChanges' # nFilterChanges /\ filters' = filters)
               => filteredArticles' = filteredArticles]_vars

\* the default criteria were applied again while the user was on a later
\* page of a view longer than a page, and the page is 1
C8_Witness ==
  /\ nFilterChanges = 1
  /\ filters = DefaultFilters
  /\ Len(resolved) = 1
  /\ okLog = <<>>
  /\ Len(filteredArticles) > itemsPerPage
  /\ prevPage > 1
  /\ currentPage = 1

RECURSIVE ConcatPages(_, _)
ConcatPages(fa, n) ==
  IF n = 0 THEN <<>> ELSE ConcatPages(fa, n - 1) \o PageSlice(fa, n)

RECURSIVE SumPageLengths(_, _)
SumPageLengths(fa, n) ==
  IF n = 0 THEN 0 ELSE SumPageLengths(fa, n - 1) + Len(PageSlice(fa, n))

\* C9: the pages partition the filtered collection. totalPages is the least
\* T with T * itemsPerPage >= N (0 for N = 0), the slices of pages 1..T in
\* order make up the filtered collection and their lengths add up to N, a
\* page past T is empty, and 25 items give pages of 10, 10, 5 and 0.
C9_PagesPartitionFiltered ==
  LET N == Len(filteredArticles)
      T == totalPages(N)
  IN  /\ T >= 0
      /\ T * itemsPerPage >= N
      /\ (T - 1) * itemsPerPage < N
      /\ N = 0 => T = 0
      /\ ConcatPages(filteredArticles, T) = filteredArticles
      /\ SumPageLengths(filteredArticles, T) = N
      /\ \A p \in (T + 1)..(MaxPage + 2) :
           PageSlice(filteredArticles, p) = <<>>
      /\ N = 25 =>
           /\ T = 3
           /\ Len(PageSlice(filteredArticles, 1)) = 10
           /\ Len(PageSlice(filteredArticles, 3)) = 5
           /\ Len(PageSlice(filteredArticles, 4)) = 0

\* 25 filtered articles, the user on page 3, which shows five
C9_Witness ==
  /\ Len(filteredArticles) = 25
  /\ currentPage = 3
  /\ Len(PageSlice(filteredArticles, currentPage)) = 5

\* the text-search predicate as the specification words it
SearchPassWithKeywords(a, f) ==
  LET lower == toLowerCase(f.searchTerm)
  IN  \/ f.searchTerm = <<>>
      \/ includes(toLowerCase(a.title), lower)
      \/ includes(toLowerCase(IF a.summary = <<>> THEN <<>> ELSE a.summary[1]),
                  lower)
      \/ /\ a.keywords # <<>>
         /\ \E i \in DOMAIN a.keywords[1] :
              includes(toLowerCase(a.keywords[1][i]), lower)

\* C10: an article is in the filtered view iff it passes the five other
\* predicates and the search term is empty or occurs, case folded, in its
\* title, its summary or one of its keywords.
C10_SearchMatchesKeywords ==
  \A i \in DOMAIN articles :
    (\E j \in DOMAIN filteredArticles : filteredArticles[j] = articles[i])
      <=> /\ favPass(articles[i], filters)
          /\ sourcePass(articles[i], filters)
          /\ categoryPass(articles[i], filters)
          /\ dateFromPass(articles[i], filters)
          /\ dateToPass(articles[i], filters)
          /\ SearchPassWithKeywords(articles[i], filters)

\* the calendar day (UTC) a parseable date string falls on
DayOf(s) == s[1]

\* the shown articles are those of the raw collection in the filtered view
InView(a) == \E j \in DOMAIN filteredArticles : filteredArticles[j] = a

\* C11: both date bounds are inclusive by day. An article is in the filtered
\* view iff it passes the four other predicates, dateFrom is unset or the
\* article was published on that day or later, and dateTo is unset or the
\* article was published on that day, at any time of it, or earlier.
C11_DateBoundsInclusiveByDay ==
  \A i \in DOMAIN articles :
    LET a == articles[i]
    IN  (Len(a.published) \in {1, 2}) =>
          (InView(a) <=>
             /\ favPass(a, filters)
             /\ sourcePass(a, filters)
             /\ categoryPass(a, filters)
             /\ searchPass(a, filters)
             /\ (filters.dateFrom = <<>>
                   \/ DayOf(a.published) >= DayOf(filters.dateFrom))
             /\ (filters.dateTo = <<>>
                   \/ DayOf(a.published) <= DayOf(filters.dateTo)))

\* published is a string Date cannot parse
Unparseable(a) == DateValue(a.published) = NaN

\* C12: an article whose published value cannot be parsed never makes the
\* filter fail. It is in the filtered view iff neither date bound is set and
\* it passes the four other predicates, and the articles with a valid date
\* are filtered as if it were not in the collection.
C12_UnparseableDateFailsBothBounds ==
  /\ \A i \in DOMAIN articles :
       Unparseable(articles[i]) =>
         (InView(articles[i]) <=>
            /\ filters.dateFrom = <<>>
            /\ filters.dateTo = <<>>
            /\ favPass(articles[i], filters)
            /\ sourcePass(articles[i], filters)
            /\ categoryPass(articles[i], filters)
            /\ searchPass(articles[i], filters))
  /\ SelectSeq(filteredArticles, LAMBDA a : ~Unparseable(a))
       = FilterChain(SelectSeq(articles, LAMBDA a : ~Unparseable(a)), filters)

\* both bounds were cleared and the two articles with an unparseable date,
\* left out until then, are in the view next to the dated ones
C12_Witness ==
  /\ filters.dateFrom = <<>>
  /\ filters.dateTo = <<>>
  /\ Cardinality({i \in DOMAIN filteredArticles :
                    Unparseable(filteredArticles[i])}) = 2
  /\ \E i \in DOMAIN filteredArticles : ~Unparseable(filteredArticles[i])

Range(s) == {s[i] : i \in DOMAIN s}

\* strictly ascending by code units, hence without duplicates
Ascending(s) == \A i, j \in DOMAIN s : i < j => StrLess(s[i], s[j])

\* the main_category values present in the raw collection
RawCategories ==
  {articles[i].main_category[1] :
     i \in {j \in DOMAIN articles : articles[j].main_category # <<>>}}

\* C13: the category list is the ascending list of the main_category values
\* of the raw collection that are present, not empty and not the sentinel.
C13_CategoriesExcludeSentinel ==
  /\ Ascending(categories)
  /\ Range(categories) = RawCategories \ {"", Sentinel, "other"}

\* C14: in every state, whatever the criteria, the source list and the
\* category list are ascending and free of duplicates and come from the raw
\* collection: every source of a raw article is in the source list exactly
\* once and the list holds nothing else, and every listed category is the
\* category of a raw article.
C14_FacetListsSortedDistinctFromRaw ==
  /\ Ascending(sources)
  /\ Ascending(categories)
  /\ \A i, j \in DOMAIN sources : i # j => sources[i] # sources[j]
  /\ \A i, j \in DOMAIN categories : i # j => categories[i] # categories[j]
  /\ \A i \in DOMAIN articles :
       Cardinality({k \in DOMAIN sources :
                      sources[k] = articles[i].source}) = 1
  /\ Range(sources) = {articles[i].source : i \in DOMAIN articles}
  /\ Range(categories) \subseteq RawCategories

\* the raw collection names its sources unsorted and more than once, a
\* source filter hides the articles of the two other sources, and the
\* source list still offers all three
C14_Witness ==
  /\ Len(articles) > Len(sources)
  /\ \E i \in DOMAIN articles : i > 1 /\
       StrLess(articles[i].source, articles[i - 1].source)
  /\ filters.selectedSource = "S1"
  /\ filteredArticles # <<>>
  /\ \A i \in DOMAIN filteredArticles : filteredArticles[i].source = "S1"
  /\ sources = <<"S1", "S2", "S3">>

\* KeywordNetwork is on screen
OnScreen == ~loading /\ tabValue = 1

\* the graph is absent, or has no node, or has no edge
NoGraph ==
  \/ networkData = 0
  \/ GraphPayloads[networkData].nodes = <<>>
  \/ GraphPayloads[networkData].edges = <<>>

\* C15: rendered with an absent graph, a graph without nodes or a graph
\* without edges, the network component shows nothing drawn, whatever was
\* drawn before, and the placeholder message in its place.
C15_InsufficientGraphDrawsNothing ==
  (OnScreen /\ NoGraph) =>
    /\ container = <<>>
    /\ KeywordNetworkView(loading, tabValue, networkData) = "placeholder"

\* a reload delivered a graph without nodes or without edges while a drawing
\* was on screen: the drawing is gone
C15_Witness ==
  /\ OnScreen
  /\ Len(resolved) = 2
  /\ networkData > 0
  /\ NoGraph
  /\ wasDrawn
  /\ container = <<>>

\* C16: rendered with a graph of at least one node and one edge, the canvas
\* shows one circle per node and one segment per edge whose source and target
\* are both ids of nodes of the payload, in the order of the edges, from the
\* circle of a node with the source id to the circle of a node with the
\* target id, and nothing for the other edges: it is the drawing of the
\* same graph with those other edges taken out.
C16_OneSegmentPerResolvableEdge ==
  (OnScreen /\ ~NoGraph) =>
    /\ container # <<>>
    /\ LET g == GraphPayloads[networkData]
           c == container[1]
           ids == {g.nodes[i].id : i \in DOMAIN g.nodes}
           ok == SelectSeq(g.edges,
                   LAMBDA e : e.source \in ids /\ e.target \in ids)
           layout == [i \in DOMAIN c.circles |-> c.circles[i].arc]
       IN  /\ Len(c.circles) = Len(g.nodes)
           /\ \A i \in DOMAIN g.nodes :
                c.circles[i].fillText = g.nodes[i].label
           /\ Len(c.lines) = Len(ok)
           /\ \A k \in DOMAIN ok :
                \E i, j \in DOMAIN g.nodes :
                  /\ g.nodes[i].id = ok[k].source
                  /\ g.nodes[j].id = ok[k].target
                  /\ c.lines[k] = [moveTo |-> c.circles[i].arc,
                                   lineTo |-> c.circles[j].arc]
           /\ c = drawNetwork([g EXCEPT !.edges = ok],
                              PlaceNodes(g, layout))

\* the graph on screen has edges that name a node the payload lacks, before
\* and after edges that are drawn
C16_Witness ==
  /\ OnScreen
  /\ container # <<>>
  /\ Len(GraphPayloads[networkData].edges) = 4
  /\ Len(container[1].lines) = 2
  /\ Len(container[1].circles) = 3

\* C17: in every state the current page is within the filtered collection:
\* it is 1, or at most the number of pages of the filtered collection; no
\* page navigation, filter change, favorite toggle or reload leaves the user
\* past the last page.
C17_CurrentPageInRange ==
  \/ currentPage = 1
  \/ currentPage <= totalPages(Len(filteredArticles))

\* the user was on a later page of a view longer than a page when a change
\* of criteria shrank the view to a single page: the page is 1
C17_Witness ==
  /\ nFilterChanges > 0
  /\ filters # DefaultFilters
  /\ Len(articles) > itemsPerPage
  /\ filteredArticles # <<>>
  /\ Len(filteredArticles) <= itemsPerPage
  /\ prevPage > 1
  /\ currentPage = 1
====
